---- MODULE Spec2Model ----
(***************************************************************************)
(* Model of src/amd/OclCryptonightR_gen.cpp: the CryptonightR program      *)
(* cache (CryptonightR_cache under CryptonightR_cache_mutex), the build    *)
(* serializer (CryptonightR_build_mutex) and the background task queue     *)
(* (background_tasks under background_tasks_mutex, drained by              *)
(* background_thread_proc).                                                *)
(*                                                                         *)
(* Threads are the mining threads (Callers), each with its own GpuContext, *)
(* and the background worker (Worker).  Every lock acquisition, every      *)
(* critical section and every call into the OpenCL library is one step.    *)
(***************************************************************************)
EXTENDS Integers, Sequences, FiniteSets, TLC

\* ------------------------------------------------------------------ bounds
\* number of top-level calls (get_program / release) the mining threads make
MaxCalls == 3
\* number of mining threads
NumCallers == 3
\* width of the modelled uint64_t height (arithmetic is modulo 2^HeightBits)
HeightBits == 4
\* size of the fingerprint space of OclCache::calc_hash
HashSpace == 2
\* number of heights of the sequential scenario (h, h+1, ..., h+SeqLen-1)
SeqLen == 7

\* --------------------------------------------------------------- constants
PRECOMPILATION_DEPTH == 4

HEIGHT_MOD == 2 ^ HeightBits

Worker == 0
Callers == 1..NumCallers
Threads == Callers \cup {Worker}
NoThread == -1

VARIANT_WOW == "VARIANT_WOW"
VARIANT_4 == "VARIANT_4"
VARIANT_2 == "VARIANT_2"
Variants == {VARIANT_WOW, VARIANT_4, VARIANT_2}

\* heights the mining threads ask for: inside the window, just past it, and
\* next to the top of the uint64_t range
Heights == {1, PRECOMPILATION_DEPTH + 1, HEIGHT_MOD - 1}

\* cl_kernel old_kernel: 0 is nullptr
Kernels == {0, 1}

\* GpuContext configurations: deviceIdx and the options OclCache::getOptions
\* derives from the context (worksize, strided index, ...)
CtxConfigs == { <<0, 0>>, <<0, 1>>, <<1, 1>> }

VARIABLES
    CryptonightR_cache,        \* std::vector<CacheEntry>
    CryptonightR_cache_mutex,  \* holder, or NoThread
    CryptonightR_build_mutex,  \* holder, or NoThread
    background_tasks_mutex,    \* holder, or NoThread
    background_tasks,          \* std::vector<BackgroundTaskBase*>
    background_thread,         \* number of std::thread objects created
    tasks,                     \* the worker's local vector
    taskIdx,                   \* position of the worker's range-for in tasks
    pc,                        \* per thread: position in the code
    frame,                     \* per thread: arguments and locals of its call
    result,                    \* per thread: value the last call returned
    ctx,                       \* per caller: its GpuContext
    prog,                      \* every cl_program created so far
    createCalls,               \* calls of createProgramWithSource so far
    calls,                     \* top-level calls made so far
    taskLog                    \* per task: its request, its executions and
                               \* deletions so far, what its execution returned

vars == << CryptonightR_cache, CryptonightR_cache_mutex, CryptonightR_build_mutex,
           background_tasks_mutex, background_tasks, background_thread, tasks,
           taskIdx, pc, frame, result, ctx, prog, createCalls, calls, taskLog >>

cacheVars == << CryptonightR_cache, CryptonightR_cache_mutex >>
queueVars == << background_tasks_mutex, background_tasks, background_thread,
                tasks, taskIdx, taskLog >>

\* ------------------------------------------------------------ pure helpers

\* CacheEntry (lines 54-69)
CacheEntry(variant, height, deviceIdx, hash, program) ==
    [variant |-> variant, height |-> height, deviceIdx |-> deviceIdx,
     hash |-> hash, program |-> program]

\* OclCache::get_device_string: the string of the device a context is on
get_device_string(deviceIdx) == deviceIdx + 1

\* the source text get_program assembles: the template with get_code(code)
\* spliced in, code generated from (variant, height)
source_code(variant, height) ==
    (IF variant = VARIANT_WOW THEN 0 ELSE 1) + height

\* the option string: OclCache::getOptions(ctx) followed by -DVARIANT=<variant>
options(opts, variant) ==
    opts + (IF variant = VARIANT_WOW THEN 0 ELSE 1)

\* OclCache::calc_hash: a fingerprint of (device string, source, options)
calc_hash(deviceString, source, opts) ==
    (deviceString + source + opts) % HashSpace

\* mutant: the fingerprint is not compared
MatchesWithoutHash(entry, variant, height, deviceIdx, hash) ==
    /\ entry.variant = variant
    /\ entry.height = height
    /\ entry.deviceIdx = deviceIdx

\* the comparison of the two lookups (lines 197 and 311)
Matches(entry, variant, height, deviceIdx, hash) ==
    /\ entry.variant = variant
    /\ entry.height = height
    /\ entry.deviceIdx = deviceIdx
    /\ entry.hash = hash

\* the range-for of the two lookups: the program of the first matching entry,
\* 0 (nullptr) when there is none
Lookup(c, variant, height, deviceIdx, hash) ==
    LET hits == {i \in 1..Len(c) : Matches(c[i], variant, height, deviceIdx, hash)}
    IN  IF hits = {} THEN 0
        ELSE c[CHOOSE i \in hits : \A j \in hits : i <= j].program

\* mutant: the build lock is taken but the cache is not looked at again
RecheckSkipped(c, variant, height, deviceIdx, hash) == 0

\* the re-check under the build lock (lines 195-202)
Recheck(c, variant, height, deviceIdx, hash) ==
    Lookup(c, variant, height, deviceIdx, hash)

\* c[i] = std::move(c.back()); c.pop_back();
SwapRemove(c, i) ==
    [j \in 1..(Len(c) - 1) |-> IF j = i THEN c[Len(c)] ELSE c[j]]

\* mutant: the window is one height too wide
IsStaleOffByOne(entry, variant, height) ==
    /\ entry.variant = variant
    /\ (entry.height + PRECOMPILATION_DEPTH + 1) % HEIGHT_MOD < height

\* mutant: the variant of the entry is not compared
IsStaleAnyVariant(entry, variant, height) ==
    (entry.height + PRECOMPILATION_DEPTH) % HEIGHT_MOD < height

\* the test of the stale eviction (line 170), in uint64_t arithmetic
IsStale(entry, variant, height) ==
    /\ entry.variant = variant
    /\ (entry.height + PRECOMPILATION_DEPTH) % HEIGHT_MOD < height

\* the loop of lines 167-181, from index i: <<cache, old_programs>>
RECURSIVE EvictStale(_, _, _, _, _)
EvictStale(c, i, old, variant, height) ==
    IF i > Len(c) THEN << c, old >>
    ELSE IF IsStale(c[i], variant, height)
         THEN EvictStale(SwapRemove(c, i), i, Append(old, c[i].program), variant, height)
         ELSE EvictStale(c, i + 1, old, variant, height)

\* mutant: the index moves on after a removal, so the element swapped in
\* from the back is not examined
RECURSIVE EvictDeviceSkipping(_, _, _)
EvictDeviceSkipping(c, i, deviceIdx) ==
    IF i > Len(c) THEN c
    ELSE IF c[i].deviceIdx = deviceIdx
         THEN EvictDeviceSkipping(SwapRemove(c, i), i + 1, deviceIdx)
         ELSE EvictDeviceSkipping(c, i + 1, deviceIdx)

\* the loop of lines 132-145, from index i: the cache it leaves
RECURSIVE EvictDevice(_, _, _)
EvictDevice(c, i, deviceIdx) ==
    IF i > Len(c) THEN c
    ELSE IF c[i].deviceIdx = deviceIdx
         THEN EvictDevice(SwapRemove(c, i), i, deviceIdx)
         ELSE EvictDevice(c, i + 1, deviceIdx)

Programs(c) == {c[i].program : i \in 1..Len(c)}


\* ------------------------------------------------------------------- Init

NoFrame ==
    [ctx |-> 0, variant |-> VARIANT_2, height |-> 0, old_kernel |-> 0,
     background |-> FALSE, hash |-> 0, program |-> 0, old_programs |-> << >>,
     built |-> FALSE, krel |-> 0, seen |-> 0, bgp |-> 0, mutated |-> FALSE,
     retry |-> FALSE]

\* a GpuContext: DeviceString 0 is the empty string (not resolved yet);
\* released counts the releaseProgram calls on its ProgramCryptonightR
GpuContext(cfg, deviceString) ==
    [deviceIdx |-> cfg[1], opts |-> cfg[2], DeviceString |-> deviceString,
     released |-> 0]

InitShared ==
    /\ CryptonightR_cache = << >>
    /\ CryptonightR_cache_mutex = NoThread
    /\ CryptonightR_build_mutex = NoThread
    /\ background_tasks_mutex = NoThread
    /\ background_tasks = << >>
    /\ background_thread = 0
    /\ tasks = << >>
    /\ taskIdx = 1
    /\ pc = [th \in Threads |-> IF th = Worker THEN "w_none" ELSE "idle"]
    /\ frame = [th \in Threads |-> NoFrame]
    /\ result = [th \in Threads |-> -1]
    /\ prog = << >>
    /\ createCalls = 0
    /\ calls = 0
    /\ taskLog = << >>

Init ==
    /\ InitShared
    /\ \E cfg \in CtxConfigs :
          ctx = [c \in Callers |-> GpuContext(IF c = 2 THEN cfg ELSE << 0, 0 >>, 0)]

\* ----------------------------------------------------------- return paths

\* where a thread continues after its call returned: a mining thread is free
\* again, the worker goes on to delete the task (line 106)
RetPc(th) == IF th = Worker THEN "w_next" ELSE "idle"

\* the call of thread th returns val; its arguments and locals are gone
Return(th, val) ==
    /\ pc' = [pc EXCEPT ![th] = RetPc(th)]
    /\ result' = [result EXCEPT ![th] = val]
    /\ frame' = [frame EXCEPT ![th] = NoFrame]

\* OclLib::releaseProgram(p)
releaseProgram(pr, p) == [pr EXCEPT ![p].rel = @ + 1]

RECURSIVE releasePrograms(_, _)
releasePrograms(pr, ps) ==
    IF ps = << >> THEN pr
    ELSE releasePrograms(releaseProgram(pr, Head(ps)), Tail(ps))

\* history: a request for `height` was made or is running; remember for every program
\* whether a request more than PRECOMPILATION_DEPTH above its height was seen
NoteRequest(pr, height) ==
    [p \in 1..Len(pr) |->
        IF pr[p].height + PRECOMPILATION_DEPTH < height
        THEN [pr[p] EXCEPT !.high = TRUE] ELSE pr[p]]

\* the key of a request of context c: variant, height, device index and
\* fingerprint (lines 282-303)
RequestKey(c, variant, height) ==
    << variant, height, ctx[c].deviceIdx,
       calc_hash(get_device_string(ctx[c].deviceIdx), source_code(variant, height),
                 options(ctx[c].opts, variant)) >>

\* history: a build of the key (variant, height, deviceIdx, hash) has failed
\* and cache c holds no entry for the key
FailedBefore(pr, c, variant, height, deviceIdx, hash) ==
    /\ Lookup(c, variant, height, deviceIdx, hash) = 0
    /\ \E q \in 1..Len(pr) :
          /\ pr[q].st = "failed"
          /\ pr[q].variant = variant /\ pr[q].height = height
          /\ pr[q].deviceIdx = deviceIdx /\ pr[q].hash = hash

\* history: the newest program a finished background request for the key of
\* (c, variant, height) returned, 0 when there is none
BuiltInBackground(log, c, variant, height) ==
    LET ps == {log[i].handle : i \in {i \in 1..Len(log) :
                 /\ log[i].del > 0
                 /\ log[i].handle > 0
                 /\ RequestKey(log[i].ctx, log[i].variant, log[i].height)
                      = RequestKey(c, variant, height)}}
    IN  IF ps = {} THEN 0 ELSE CHOOSE p \in ps : \A q \in ps : q <= p

\* ------------------------------------------- CryptonightR_get_program entry

\* lines 248-303: the background branch, the variant switch, the device
\* string and the fingerprint. dsok is what OclCache::get_device_string
\* answers when the context's DeviceString is still empty.
get_program(th, c, variant, height, background, old_kernel, dsok) ==
    LET f0 == [NoFrame EXCEPT !.ctx = c, !.variant = variant, !.height = height,
                              !.old_kernel = old_kernel, !.background = background]
        ds == IF ctx[c].DeviceString = 0
              THEN get_device_string(ctx[c].deviceIdx) ELSE ctx[c].DeviceString
        hash == calc_hash(ds, source_code(variant, height),
                          options(ctx[c].opts, variant))
    IN
    /\ prog' = NoteRequest(prog, height)
    /\ IF background
       THEN /\ pc' = [pc EXCEPT ![th] = "bg_lock"]
            /\ frame' = [frame EXCEPT ![th] = f0]
            /\ result' = [result EXCEPT ![th] = -1]
            /\ ctx' = ctx
       ELSE IF variant \notin {VARIANT_WOW, VARIANT_4}
       THEN /\ Return(th, 0)
            /\ ctx' = ctx
       ELSE IF ctx[c].DeviceString = 0 /\ ~dsok
       THEN /\ Return(th, 0)
            /\ ctx' = ctx
       ELSE /\ pc' = [pc EXCEPT ![th] = "gp_lock"]
            /\ frame' = [frame EXCEPT ![th] =
                  [f0 EXCEPT !.hash = hash,
                             !.seen = Lookup(CryptonightR_cache, variant, height,
                                             ctx[c].deviceIdx, hash),
                             !.bgp = BuiltInBackground(taskLog, c, variant, height),
                             !.retry = FailedBefore(prog, CryptonightR_cache, variant,
                                           height, ctx[c].deviceIdx, hash)]]
            /\ result' = [result EXCEPT ![th] = -1]
            /\ ctx' = [ctx EXCEPT ![c].DeviceString = ds]

\* a mining thread calls CryptonightR_get_program with its own context
CallGetProgram(t, variant, height, background, old_kernel, dsok) ==
    /\ pc[t] = "idle"
    /\ calls' = calls + 1
    /\ get_program(t, t, variant, height, background, old_kernel, dsok)
    /\ UNCHANGED << cacheVars, CryptonightR_build_mutex, queueVars, createCalls >>

\* lines 305-306: lock the cache for the first lookup
GpLock(th) ==
    /\ pc[th] = "gp_lock"
    /\ CryptonightR_cache_mutex = NoThread
    /\ CryptonightR_cache_mutex' = th
    /\ pc' = [pc EXCEPT ![th] = "gp_scan"]
    /\ UNCHANGED << CryptonightR_cache, CryptonightR_build_mutex, queueVars,
                    frame, result, ctx, prog, createCalls, calls >>

\* lines 309-317: the first lookup; on a hit the entry's program is the
\* return value (line 314); the lock_guard of line 306 unlocks on scope exit
GpScan(th) ==
    LET f == frame[th]
        p == Lookup(CryptonightR_cache, f.variant, f.height,
                    ctx[f.ctx].deviceIdx, f.hash)
    IN
    /\ pc[th] = "gp_scan"
    /\ CryptonightR_cache_mutex' = NoThread
    /\ IF p # 0
       THEN /\ frame' = [frame EXCEPT ![th].program = p]
            /\ pc' = [pc EXCEPT ![th] = "gp_ret"]
       ELSE /\ pc' = [pc EXCEPT ![th] = "bp_kernel"]
            /\ frame' = frame
    /\ UNCHANGED << CryptonightR_cache, CryptonightR_build_mutex, queueVars,
                    result, ctx, prog, createCalls, calls >>

\* line 314, after the unlock: the caller gets the program of the hit
GpReturn(th) ==
    /\ pc[th] = "gp_ret"
    /\ Return(th, frame[th].program)
    /\ UNCHANGED << cacheVars, CryptonightR_build_mutex, queueVars, ctx, prog,
                    createCalls, calls >>


\* ---------------------------------------------- CryptonightR_build_program

\* lines 157-159: release the outgoing kernel
BpKernel(th) ==
    /\ pc[th] = "bp_kernel"
    /\ frame' = [frame EXCEPT ![th].krel =
                    IF frame[th].old_kernel # 0 THEN @ + 1 ELSE @]
    /\ pc' = [pc EXCEPT ![th] = "ev_lock"]
    /\ UNCHANGED << cacheVars, CryptonightR_build_mutex, queueVars, result,
                    ctx, prog, createCalls, calls >>

\* lines 163-164: lock the cache for the stale eviction
EvLock(th) ==
    /\ pc[th] = "ev_lock"
    /\ CryptonightR_cache_mutex = NoThread
    /\ CryptonightR_cache_mutex' = th
    /\ pc' = [pc EXCEPT ![th] = "ev_scan"]
    /\ UNCHANGED << CryptonightR_cache, CryptonightR_build_mutex, queueVars,
                    frame, result, ctx, prog, createCalls, calls >>

\* mutant: the block of lines 163-182 is not closed before the releases, so
\* the lock_guard of line 164 lives on
EvictionScopeHeld(th) == th

\* line 182: the block ends, the lock_guard of line 164 unlocks; the holder
\* of the cache lock afterwards
EvictionScopeExit(th) == NoThread

\* lines 166-182: move the stale entries' programs to old_programs
EvScan(th) ==
    LET f == frame[th]
        r == EvictStale(CryptonightR_cache, 1, << >>, f.variant, f.height)
        gone == {r[2][i] : i \in 1..Len(r[2])}
    IN
    /\ pc[th] = "ev_scan"
    /\ CryptonightR_cache' = r[1]
    /\ CryptonightR_cache_mutex' = EvictionScopeExit(th)
    /\ frame' = [frame EXCEPT ![th].old_programs = r[2],
                              ![th].mutated = (@ \/ r[2] # << >>)]
    /\ prog' = NoteRequest([p \in 1..Len(prog) |->
                  IF p \in gone THEN [prog[p] EXCEPT !.st = "stale"] ELSE prog[p]],
                            f.height)
    /\ pc' = [pc EXCEPT ![th] = "ev_release"]
    /\ UNCHANGED << CryptonightR_build_mutex, queueVars, result, ctx,
                    createCalls, calls >>

\* lines 184-186: release the evicted programs, the cache lock not held
EvRelease(th) ==
    /\ pc[th] = "ev_release"
    /\ prog' = releasePrograms(prog, frame[th].old_programs)
    /\ pc' = [pc EXCEPT ![th] = "bl_lock"]
    /\ UNCHANGED << cacheVars, CryptonightR_build_mutex, queueVars, frame,
                    result, ctx, createCalls, calls >>

\* mutant: the build lock is taken without waiting for its holder
BuildLockFreeAlways(holder) == TRUE

\* std::lock_guard g1(CryptonightR_build_mutex) (line 188) gets past its
\* constructor when nobody holds the mutex
BuildLockFree(holder) == holder = NoThread

\* line 188: take the build lock
BuildLock(th) ==
    /\ pc[th] = "bl_lock"
    /\ BuildLockFree(CryptonightR_build_mutex)
    /\ CryptonightR_build_mutex' = th
    /\ pc' = [pc EXCEPT ![th] = "rc_lock"]
    /\ UNCHANGED << cacheVars, queueVars, frame, result, ctx, prog,
                    createCalls, calls >>

\* lines 191-192: lock the cache for the re-check
RcLock(th) ==
    /\ pc[th] = "rc_lock"
    /\ CryptonightR_cache_mutex = NoThread
    /\ CryptonightR_cache_mutex' = th
    /\ pc' = [pc EXCEPT ![th] = "rc_scan"]
    /\ UNCHANGED << CryptonightR_cache, CryptonightR_build_mutex, queueVars,
                    frame, result, ctx, prog, createCalls, calls >>

\* lines 194-203: the re-check under the build lock; the cache lock goes at
\* line 203, a hit leaves the entry's program in `program`
RcScan(th) ==
    LET f == frame[th]
        p == Recheck(CryptonightR_cache, f.variant, f.height,
                     ctx[f.ctx].deviceIdx, f.hash)
    IN
    /\ pc[th] = "rc_scan"
    /\ CryptonightR_cache_mutex' = NoThread
    /\ IF p # 0
       THEN /\ frame' = [frame EXCEPT ![th].program = p]
            /\ pc' = [pc EXCEPT ![th] = "rc_ret"]
       ELSE /\ pc' = [pc EXCEPT ![th] = "create"]
            /\ frame' = frame
    /\ UNCHANGED << CryptonightR_cache, CryptonightR_build_mutex, queueVars,
                    result, ctx, prog, createCalls, calls >>

\* lines 205-207: return the program of the re-check's hit; the build lock goes
RcReturn(th) ==
    /\ pc[th] = "rc_ret"
    /\ Return(th, frame[th].program)
    /\ CryptonightR_build_mutex' = NoThread
    /\ UNCHANGED << cacheVars, queueVars, ctx, prog, createCalls, calls >>

\* lines 209-216: OclLib::createProgramWithSource; ok is its answer
CreateProgram(th, ok) ==
    LET f == frame[th]
        p == Len(prog) + 1
    IN
    /\ pc[th] = "create"
    /\ createCalls' = createCalls + 1
    /\ IF ok
       THEN /\ prog' = Append(prog,
                  [variant |-> f.variant, height |-> f.height,
                   deviceIdx |-> ctx[f.ctx].deviceIdx, hash |-> f.hash,
                   by |-> th, st |-> "created", rel |-> 0, high |-> FALSE])
            /\ frame' = [frame EXCEPT ![th].program = p, ![th].built = TRUE]
            /\ pc' = [pc EXCEPT ![th] = "build"]
            /\ result' = result
            /\ CryptonightR_build_mutex' = CryptonightR_build_mutex
       ELSE /\ prog' = prog
            /\ Return(th, 0)
            /\ CryptonightR_build_mutex' = NoThread
    /\ UNCHANGED << cacheVars, queueVars, ctx, calls >>

\* mutant: a failed build returns nullptr without releasing the program
BuildStepNoRelease(th, at, next, ok) ==
    /\ pc[th] = at
    /\ IF ok
       THEN /\ pc' = [pc EXCEPT ![th] = next]
            /\ UNCHANGED << result, frame, prog, CryptonightR_build_mutex >>
       ELSE /\ prog' = [prog EXCEPT ![frame[th].program].st = "failed"]
            /\ Return(th, 0)
            /\ CryptonightR_build_mutex' = NoThread
    /\ UNCHANGED << cacheVars, queueVars, ctx, createCalls, calls >>

\* mutant: a failed build returns nullptr with the build lock still held
BuildStepKeepingLock(th, at, next, ok) ==
    /\ pc[th] = at
    /\ IF ok
       THEN /\ pc' = [pc EXCEPT ![th] = next]
            /\ UNCHANGED << result, frame, prog >>
       ELSE /\ prog' = [releaseProgram(prog, frame[th].program)
                            EXCEPT ![frame[th].program].st = "failed"]
            /\ Return(th, 0)
    /\ UNCHANGED << cacheVars, CryptonightR_build_mutex, queueVars, ctx,
                    createCalls, calls >>

\* lines 218-224 (OclLib::buildProgram) and 226-232 (OclCache::wait_build):
\* on failure the program is released and the call returns nullptr
BuildStep(th, at, next, ok) ==
    /\ pc[th] = at
    /\ IF ok
       THEN /\ pc' = [pc EXCEPT ![th] = next]
            /\ UNCHANGED << result, frame, prog, CryptonightR_build_mutex >>
       ELSE /\ prog' = [releaseProgram(prog, frame[th].program)
                            EXCEPT ![frame[th].program].st = "failed"]
            /\ Return(th, 0)
            /\ CryptonightR_build_mutex' = NoThread
    /\ UNCHANGED << cacheVars, queueVars, ctx, createCalls, calls >>

BuildProgram(th, ok) == BuildStep(th, "build", "wait", ok)

WaitBuild(th, ok) == BuildStep(th, "wait", "ins_lock", ok)

\* lines 236-237: lock the cache for the insert
InsLock(th) ==
    /\ pc[th] = "ins_lock"
    /\ CryptonightR_cache_mutex = NoThread
    /\ CryptonightR_cache_mutex' = th
    /\ pc' = [pc EXCEPT ![th] = "insert"]
    /\ UNCHANGED << CryptonightR_cache, CryptonightR_build_mutex, queueVars,
                    frame, result, ctx, prog, createCalls, calls >>

\* lines 238-239: emplace_back, then the cache lock goes
Insert(th) ==
    LET f == frame[th] IN
    /\ pc[th] = "insert"
    /\ CryptonightR_cache' = Append(CryptonightR_cache,
          CacheEntry(f.variant, f.height, ctx[f.ctx].deviceIdx, f.hash, f.program))
    /\ CryptonightR_cache_mutex' = NoThread
    /\ prog' = [prog EXCEPT ![f.program].st = "cached"]
    /\ pc' = [pc EXCEPT ![th] = "ins_ret"]
    /\ UNCHANGED << CryptonightR_build_mutex, queueVars, frame, result, ctx,
                    createCalls, calls >>

\* lines 240-241: return the new program; the build lock goes
InsReturn(th) ==
    /\ pc[th] = "ins_ret"
    /\ Return(th, frame[th].program)
    /\ CryptonightR_build_mutex' = NoThread
    /\ UNCHANGED << cacheVars, queueVars, ctx, prog, createCalls, calls >>

\* ------------------------------------------------------ CryptonightR_release

\* line 127: release the context's own program, then on to the cache
CallRelease(t) ==
    /\ pc[t] = "idle"
    /\ calls' = calls + 1
    /\ ctx' = [ctx EXCEPT ![t].released = @ + 1]
    /\ frame' = [frame EXCEPT ![t] = [NoFrame EXCEPT !.ctx = t]]
    /\ result' = [result EXCEPT ![t] = -1]
    /\ pc' = [pc EXCEPT ![t] = "rl_lock"]
    /\ UNCHANGED << cacheVars, CryptonightR_build_mutex, queueVars, prog,
                    createCalls >>

\* line 129
RlLock(t) ==
    /\ pc[t] = "rl_lock"
    /\ CryptonightR_cache_mutex = NoThread
    /\ CryptonightR_cache_mutex' = t
    /\ pc' = [pc EXCEPT ![t] = "rl_scan"]
    /\ UNCHANGED << CryptonightR_cache, CryptonightR_build_mutex, queueVars,
                    frame, result, ctx, prog, createCalls, calls >>

\* lines 131-146: drop every entry of the context's device
RlScan(t) ==
    LET c == EvictDevice(CryptonightR_cache, 1, ctx[t].deviceIdx)
        gone == Programs(CryptonightR_cache) \ Programs(c)
    IN
    /\ pc[t] = "rl_scan"
    /\ CryptonightR_cache' = c
    /\ CryptonightR_cache_mutex' = NoThread
    /\ prog' = [p \in 1..Len(prog) |->
                  IF p \in gone THEN [prog[p] EXCEPT !.st = "device"] ELSE prog[p]]
    /\ frame' = [frame EXCEPT ![t] = NoFrame]
    /\ pc' = [pc EXCEPT ![t] = "idle"]
    /\ UNCHANGED << CryptonightR_build_mutex, queueVars, result, ctx,
                    createCalls, calls >>


\* ---------------------------------------------------------- background_exec

\* mutant: the closure does not carry the variant of the request
BackgroundTaskOtherVariant(id, f) ==
    [id |-> id, ctx |-> f.ctx, variant |-> VARIANT_4, height |-> f.height,
     old_kernel |-> f.old_kernel]

\* a task: the closure of line 251 (ctx, variant, height, old_kernel); id is
\* its position in the order of the push_backs
BackgroundTask(id, f) ==
    [id |-> id, ctx |-> f.ctx, variant |-> f.variant, height |-> f.height,
     old_kernel |-> f.old_kernel]

\* line 118: lock the pending list
BgLock(t) ==
    /\ pc[t] = "bg_lock"
    /\ background_tasks_mutex = NoThread
    /\ background_tasks_mutex' = t
    /\ pc' = [pc EXCEPT ![t] = "bg_push"]
    /\ UNCHANGED << cacheVars, CryptonightR_build_mutex, background_tasks,
                    background_thread, tasks, taskIdx, taskLog, frame, result,
                    ctx, prog, createCalls, calls >>

\* mutant: every submission starts a thread
StartsThreadAlways(existing) == TRUE

\* lines 120-122: does this submission start the worker thread?
StartsThread(existing) == existing = 0

\* lines 119-123 and 252: push the task, start the worker if there is none,
\* unlock, return nullptr
BgPush(t) ==
    LET id == Len(taskLog) + 1
        start == StartsThread(background_thread)
    IN
    /\ pc[t] = "bg_push"
    /\ background_tasks' = Append(background_tasks, BackgroundTask(id, frame[t]))
    /\ taskLog' = Append(taskLog,
          [exec |-> 0, del |-> 0, handle |-> -1,
           busy |-> (pc[Worker] \notin {"w_none", "w_top", "w_swap"}
                     /\ taskIdx <= Len(tasks)),
           ctx |-> frame[t].ctx, variant |-> frame[t].variant,
           height |-> frame[t].height])
    /\ background_thread' = IF start THEN background_thread + 1 ELSE background_thread
    /\ background_tasks_mutex' = NoThread
    /\ pc' = [pc EXCEPT ![t] = RetPc(t),
                        ![Worker] = IF start /\ t # Worker /\ @ = "w_none"
                                    THEN "w_top" ELSE @]
    /\ result' = [result EXCEPT ![t] = 0]
    /\ frame' = [frame EXCEPT ![t] = NoFrame]
    /\ UNCHANGED << cacheVars, CryptonightR_build_mutex, tasks, taskIdx,
                    ctx, prog, createCalls, calls >>

\* ---------------------------------------------------- background_thread_proc

\* lines 98-100: tasks.clear(), then lock the pending list
WLock ==
    /\ pc[Worker] = "w_top"
    /\ background_tasks_mutex = NoThread
    /\ background_tasks_mutex' = Worker
    /\ tasks' = << >>
    /\ pc' = [pc EXCEPT ![Worker] = "w_swap"]
    /\ UNCHANGED << cacheVars, CryptonightR_build_mutex, background_tasks,
                    background_thread, taskIdx, taskLog, frame, result, ctx,
                    prog, createCalls, calls >>

\* mutant: the pending list is copied, not swapped out
CopyTasks(pending, local) == << pending, pending >>

\* background_tasks.swap(tasks): << background_tasks, tasks >> afterwards
SwapTasks(pending, local) == << local, pending >>

\* mutant: the block of lines 99-102 is not closed before the tasks run
SwapScopeHeld(th) == th

\* line 102: the block ends, the lock_guard of line 100 unlocks; the holder
\* of the queue lock afterwards
SwapScopeExit(th) == NoThread

\* lines 101-102: swap and unlock
WSwap ==
    LET r == SwapTasks(background_tasks, tasks) IN
    /\ pc[Worker] = "w_swap"
    /\ background_tasks' = r[1]
    /\ tasks' = r[2]
    /\ taskIdx' = 1
    /\ background_tasks_mutex' = SwapScopeExit(Worker)
    /\ pc' = [pc EXCEPT ![Worker] = "w_loop"]
    /\ UNCHANGED << cacheVars, CryptonightR_build_mutex, background_thread,
                    taskLog, frame, result, ctx, prog, createCalls, calls >>

\* mutant: the closure passes its caller's `background` on
TaskBackgroundAgain == TRUE

\* what the closure of line 251 passes for `background`
TaskBackground == FALSE

\* mutant: the batch is walked from the back
TaskAtFromBack(ts, i) == ts[Len(ts) + 1 - i]

\* the order in which the range-for of line 104 visits the swapped-out tasks
TaskAt(ts, i) == ts[i]

\* lines 104-105: task->exec() runs the closure, a get_program call
WExec(dsok) ==
    LET task == TaskAt(tasks, taskIdx) IN
    /\ pc[Worker] = "w_loop"
    /\ taskIdx <= Len(tasks)
    /\ taskLog' = [taskLog EXCEPT ![task.id].exec = @ + 1]
    /\ get_program(Worker, task.ctx, task.variant, task.height, TaskBackground,
                   task.old_kernel, dsok)
    /\ UNCHANGED << cacheVars, CryptonightR_build_mutex, background_tasks_mutex,
                    background_tasks, background_thread, tasks, taskIdx,
                    createCalls, calls >>

\* line 106: delete task, and on to the next one
WDelete ==
    LET task == TaskAt(tasks, taskIdx) IN
    /\ pc[Worker] = "w_next"
    /\ taskLog' = [taskLog EXCEPT ![task.id].del = @ + 1,
                                  ![task.id].handle = result[Worker]]
    /\ taskIdx' = taskIdx + 1
    /\ pc' = [pc EXCEPT ![Worker] = "w_loop"]
    /\ UNCHANGED << cacheVars, CryptonightR_build_mutex, background_tasks_mutex,
                    background_tasks, background_thread, tasks, frame, result,
                    ctx, prog, createCalls, calls >>

\* line 109: the batch is done; sleep, then start over
WSleep ==
    /\ pc[Worker] = "w_loop"
    /\ taskIdx > Len(tasks)
    /\ pc' = [pc EXCEPT ![Worker] = "w_top"]
    /\ UNCHANGED << cacheVars, CryptonightR_build_mutex, queueVars, frame,
                    result, ctx, prog, createCalls, calls >>

\* ------------------------------------------------------------------- Next

\* a step of thread th inside CryptonightR_get_program / _build_program,
\* when th is the only thread making synchronous requests; oks are the
\* answers the OpenCL library may give
SoloPipeline(th, oks) ==
    \/ GpLock(th)
    \/ GpScan(th)
    \/ GpReturn(th)
    \/ BpKernel(th)
    \/ EvLock(th)
    \/ EvScan(th)
    \/ EvRelease(th)
    \/ BuildLock(th)
    \/ RcLock(th)
    \/ RcScan(th)
    \/ \E ok \in oks : CreateProgram(th, ok)
    \/ \E ok \in oks : BuildProgram(th, ok)
    \/ \E ok \in oks : WaitBuild(th, ok)
    \/ InsLock(th)
    \/ Insert(th)
    \/ InsReturn(th)

\* the same with the return of a re-check hit: the re-check can only hit
\* when another thread inserted the entry after this thread's first lookup
Pipeline(th, oks) ==
    \/ SoloPipeline(th, oks)
    \/ RcReturn(th)

Submit(th) ==
    \/ BgLock(th)
    \/ BgPush(th)

WorkerQueue ==
    \/ WLock
    \/ WSwap
    \/ \E dsok \in BOOLEAN : WExec(dsok)
    \/ WDelete
    \/ WSleep

Release(t) ==
    \/ CallRelease(t)
    \/ RlLock(t)
    \/ RlScan(t)

\* the mining threads have calls left to make
Budget(n) == calls < n

\* the whole program: any thread, any request
Next ==
    \/ /\ Budget(MaxCalls)
       /\ \E t \in Callers, v \in Variants, h \in 0..(HEIGHT_MOD - 1),
             b \in BOOLEAN, k \in Kernels, dsok \in BOOLEAN :
                CallGetProgram(t, v, h, b, k, dsok)
    \/ \E t \in Callers : Budget(MaxCalls) /\ CallRelease(t)
    \/ \E t \in Callers : RlLock(t) \/ RlScan(t)
    \/ \E th \in Threads : Pipeline(th, BOOLEAN)
    \/ \E th \in Threads : Submit(th)
    \/ WorkerQueue

Spec == Init /\ [][Next]_vars

\* thread th returns from its call in this step
Returns(th) == pc[th] # RetPc(th) /\ pc'[th] = RetPc(th)

\* ---------------------------------------------------------------- CacheSpec
\* two mining threads' synchronous requests and device releases

CacheNext ==
    \/ /\ Budget(MaxCalls)
       /\ \E t \in {1, 2}, v \in {VARIANT_WOW, VARIANT_4}, h \in Heights,
             dsok \in BOOLEAN : CallGetProgram(t, v, h, FALSE, 0, dsok)
    \/ \E t \in {1, 2} : Budget(MaxCalls) /\ CallRelease(t)
    \/ \E t \in {1, 2} : RlLock(t) \/ RlScan(t)
    \/ \E t \in {1, 2} : Pipeline(t, BOOLEAN)

CacheSpec == Init /\ [][CacheNext]_vars

\* --------------------------------------------------------------- DeviceSpec
\* two mining threads fill the cache (every build succeeds, no height is
\* stale for another) and release their devices

DeviceNext ==
    \/ /\ Budget(MaxCalls + 1)
       /\ \E t \in {1, 2}, v \in {VARIANT_WOW, VARIANT_4},
             h \in {1, PRECOMPILATION_DEPTH + 1} :
                CallGetProgram(t, v, h, FALSE, 0, TRUE)
    \/ \E t \in {1, 2} : Budget(MaxCalls + 1) /\ CallRelease(t)
    \/ \E t \in {1, 2} : RlLock(t) \/ RlScan(t)
    \/ \E t \in {1, 2} : Pipeline(t, {TRUE})

DeviceSpec == Init /\ [][DeviceNext]_vars

\* ------------------------------------------------------------------ SeqSpec
\* one mining thread asks for heights h, h+1, ... of one variant, one after
\* another, possibly asking for a height again, every build succeeding

\* where a sequence starts: at the bottom of the height range, and so that it
\* ends at the top of it
SeqStarts == {0, 1, HEIGHT_MOD - SeqLen}

SeqNext ==
    \/ /\ Budget(SeqLen)
       /\ \E v \in {VARIANT_WOW, VARIANT_4}, h \in 0..(HEIGHT_MOD - 1) :
             /\ IF prog = << >>
                THEN h \in SeqStarts
                ELSE /\ h \in {prog[Len(prog)].height, prog[Len(prog)].height + 1}
                     /\ v = prog[Len(prog)].variant
             /\ CallGetProgram(1, v, h, FALSE, 0, TRUE)
    \/ SoloPipeline(1, {TRUE})

SeqSpec == Init /\ [][SeqNext]_vars

\* entries of the cache for one variant and one device
EntriesFor(variant, deviceIdx) ==
    {i \in 1..Len(CryptonightR_cache) :
        /\ CryptonightR_cache[i].variant = variant
        /\ CryptonightR_cache[i].deviceIdx = deviceIdx}

\* C3: while heights h, h+1, ..., h+k are requested one after another for one
\* variant and one device, the cache never holds more than
\* PRECOMPILATION_DEPTH + 1 entries of that variant and device.
C3_HeightEvictionBound ==
    \A v \in Variants, d \in {0, 1} :
        Cardinality(EntriesFor(v, d)) <= PRECOMPILATION_DEPTH + 1

\* the window is full, after entries below it were evicted and released
C3_Witness ==
    /\ \E v \in Variants, d \in {0, 1} :
          Cardinality(EntriesFor(v, d)) = PRECOMPILATION_DEPTH + 1
    /\ \E p \in 1..Len(prog) : prog[p].st = "stale" /\ prog[p].rel = 1
    /\ pc[1] = "idle"

\* ---------------------------------------------------------------- QueueSpec
\* two mining threads submit background requests, the worker runs them

QueueNext ==
    \/ /\ Budget(MaxCalls)
       /\ \E t \in {1, 2}, v \in {VARIANT_WOW, VARIANT_2} :
             CallGetProgram(t, v, PRECOMPILATION_DEPTH + 1, TRUE, 0, TRUE)
    \/ \E th \in Threads : Submit(th)
    \/ WorkerQueue
    \/ SoloPipeline(Worker, BOOLEAN)

\* all contexts are on one device, with one configuration
OneDeviceInit ==
    /\ InitShared
    /\ ctx = [c \in Callers |-> GpuContext(<< 0, 0 >>, 0)]

QueueSpec == OneDeviceInit /\ [][QueueNext]_vars

\* the worker and the submitting threads are scheduled, and a lock that stays
\* free is acquired
FairQueueSpec ==
    /\ QueueSpec
    /\ WF_vars(WorkerQueue \/ SoloPipeline(Worker, BOOLEAN))
    /\ \A t \in {1, 2} : WF_vars(Submit(t))

InSubmit(t) == pc[t] \in {"bg_lock", "bg_push"}

\* programs created and releaseProgram calls made so far
ExternalCalls == << createCalls, [p \in 1..Len(prog) |-> prog[p].rel] >>

\* C6: a call with background=true, whatever the variant, goes straight to
\* background_exec, returns nullptr and adds exactly one task; the calling
\* thread takes neither the cache lock nor the build lock, makes no call that
\* creates, builds or releases a program and leaves the cache as it is; the
\* worker, running a task, never submits one.
C6_BackgroundCall ==
    /\ [](/\ ~InSubmit(Worker)
          /\ Len(taskLog) + Cardinality({t \in Callers : InSubmit(t)}) = calls)
    /\ [][\A t \in Callers :
            ((InSubmit(t) \/ InSubmit(t)') /\ pc'[t] # pc[t]) =>
                /\ CryptonightR_cache' = CryptonightR_cache
                /\ CryptonightR_cache_mutex' = CryptonightR_cache_mutex
                /\ CryptonightR_build_mutex' = CryptonightR_build_mutex
                /\ CryptonightR_cache_mutex # t /\ CryptonightR_build_mutex # t
                /\ ExternalCalls' = ExternalCalls
                /\ pc[t] = "idle" => /\ pc'[t] = "bg_lock"
                                     /\ frame'[t].background
                                     /\ background_tasks' = background_tasks
                /\ pc[t] = "bg_lock" => /\ pc'[t] = "bg_push"
                                        /\ background_tasks' = background_tasks
                /\ pc[t] = "bg_push" => /\ pc'[t] = "idle"
                                        /\ result'[t] = 0
                                        /\ Len(background_tasks') = Len(background_tasks) + 1
                                        /\ Len(taskLog') = Len(taskLog) + 1
       ]_vars

\* a request with an invalid variant is being submitted while the worker is
\* inside a build, holding the build lock
C6_Witness ==
    \E t \in Callers :
        /\ pc[t] = "bg_push"
        /\ frame[t].variant = VARIANT_2
        /\ CryptonightR_build_mutex = Worker
        /\ pc[Worker] = "wait"

\* task i waits in the pending list or in the part of the worker's batch not
\* yet visited
Pending(i) ==
    \/ \E j \in 1..Len(background_tasks) : background_tasks[j].id = i
    \/ \E j \in taskIdx..Len(tasks) : tasks[j].id = i

\* C7: no submitted task is lost or run twice (a task not yet run waits in
\* the pending list or in the worker's batch; none is run or deleted more
\* than once, none deleted before it ran), and under fair scheduling every
\* submitted task is eventually run once and deleted.
C7_TasksExecutedOnce ==
    /\ [](\A i \in 1..Len(taskLog) :
            /\ taskLog[i].exec <= 1
            /\ taskLog[i].del <= taskLog[i].exec
            /\ taskLog[i].exec = 0 => Pending(i))
    /\ \A i \in 1..MaxCalls :
          [](Len(taskLog) >= i =>
                <>(Len(taskLog) >= i /\ taskLog[i].exec = 1 /\ taskLog[i].del = 1))

\* every task has run once and is deleted, one of them submitted while the
\* worker was running a batch
C7_Witness ==
    /\ Len(taskLog) = MaxCalls
    /\ \A i \in 1..Len(taskLog) : taskLog[i].exec = 1 /\ taskLog[i].del = 1
    /\ \E i \in 1..Len(taskLog) : taskLog[i].busy

\* C8: tasks run in the order of their push_back: when a task has started,
\* every task pushed before it has run and been deleted.
C8_SubmissionOrder ==
    \A i, j \in 1..Len(taskLog) :
        (i < j /\ taskLog[j].exec > 0) =>
            taskLog[i].exec > 0 /\ taskLog[i].del > 0

\* the second task of a batch of two is running, the first one is deleted,
\* and a third task waits for the next batch
C8_Witness ==
    /\ Len(tasks) = 2
    /\ taskIdx = 2
    /\ taskLog[tasks[2].id].exec = 1
    /\ taskLog[tasks[1].id].del = 1
    /\ Len(background_tasks) = 1

\* C9: there is one worker thread as soon as a task was submitted, none
\* before, never a second one, and it stays.
C9_OneWorker ==
    /\ [](/\ background_thread = (IF Len(taskLog) > 0 THEN 1 ELSE 0)
          /\ (pc[Worker] = "w_none") = (background_thread = 0))
    /\ [][background_thread = 1 => background_thread' = 1 /\ pc'[Worker] # "w_none"]_vars

\* two threads submitted at the same time; the worker runs the second task
C9_Witness ==
    /\ background_thread = 1
    /\ Len(taskLog) >= 2
    /\ taskLog[2].exec = 1
    /\ \E t \in Callers : pc[t] = "bg_lock"

\* ---------------------------------------------------------------- AsyncSpec
\* two mining threads of one device make background and synchronous requests
\* and release the device; the worker runs the background requests

AsyncNext ==
    \/ /\ Budget(MaxCalls)
       /\ \E t \in {1, 2}, h \in {PRECOMPILATION_DEPTH + 1, HEIGHT_MOD - 1},
             b \in BOOLEAN : CallGetProgram(t, VARIANT_WOW, h, b, 0, TRUE)
    \/ \E t \in {1, 2} : Budget(MaxCalls) /\ CallRelease(t)
    \/ \E t \in {1, 2} : RlLock(t) \/ RlScan(t)
    \/ \E th \in Threads : Submit(th)
    \/ WorkerQueue
    \/ \E th \in Threads : Pipeline(th, {TRUE})

AsyncSpec == OneDeviceInit /\ [][AsyncNext]_vars

\* C10 as stated: a synchronous request for a key for which a background
\* request has run and built a program, with no request more than
\* PRECOMPILATION_DEPTH above the key's height since, returns that program
\* at the first lookup, without a build.
C10_Original ==
    [][\A t \in Callers :
        LET f == frame[t] IN
        (f.bgp # 0 /\ Returns(t) /\ ~prog'[f.bgp].high) =>
            /\ pc[t] = "gp_ret"
            /\ result'[t] = f.bgp
            /\ createCalls' = createCalls
    ]_vars

\* C10 amended: ... and the program's entry is still in the cache when the
\* synchronous request returns (no CryptonightR_release of the key's device
\* and no stale eviction, wrapped-around height test included, removed it).
C10_AsyncThenSync ==
    [][\A t \in Callers :
        LET f == frame[t] IN
        (f.bgp # 0 /\ Returns(t) /\ ~prog'[f.bgp].high
                   /\ prog'[f.bgp].st = "cached") =>
            /\ pc[t] = "gp_ret"
            /\ result'[t] = f.bgp
            /\ ~f.built
            /\ createCalls' = createCalls
    ]_vars

\* a synchronous request is about to hit the entry a background request built
C10_Witness ==
    \E t \in Callers :
        /\ pc[t] = "gp_ret"
        /\ frame[t].bgp # 0
        /\ prog[frame[t].bgp].by = Worker
        /\ prog[frame[t].bgp].st = "cached"
        /\ ~prog[frame[t].bgp].high

\* -------------------------------------------------------------- SameKeySpec
\* every mining thread makes one synchronous request, all for the same key,
\* on a cold cache: the contexts are on one device with one configuration
\* and have resolved their device string

SameKeyInit ==
    /\ InitShared
    /\ ctx = [c \in Callers |-> GpuContext(<< 0, 0 >>, get_device_string(0))]

SameKeyNext ==
    \/ \E t \in Callers :
          /\ result[t] = -1
          /\ CallGetProgram(t, VARIANT_WOW, PRECOMPILATION_DEPTH + 1, FALSE, 0, TRUE)
    \/ \E t \in Callers : Pipeline(t, BOOLEAN)

SameKeySpec == SameKeyInit /\ [][SameKeyNext]_vars

\* build attempts that failed: createProgramWithSource gave no program, or
\* buildProgram / wait_build failed on the program
Failures ==
    (createCalls - Len(prog)) + Cardinality({p \in 1..Len(prog) : prog[p].st = "failed"})

AllReturned == \A t \in Callers : result[t] # -1 /\ pc[t] = "idle"

Entries(c) == {c[i] : i \in 1..Len(c)}

\* C2: a lookup (first lookup or re-check) hands out a program only if it was
\* built for the request's variant, height, device index and fingerprint; and
\* a synchronous request that finds its key cached when it is made, the entry
\* not evicted before it returns, returns at the first lookup with that
\* entry's program, without a createProgramWithSource call and with the cache
\* as it was.
C2_CacheKeyCompleteness ==
    [][\A th \in Threads :
        LET f == frame[th] IN
        /\ (pc[th] \in {"gp_ret", "rc_ret"} /\ Returns(th) /\ result'[th] > 0) =>
              /\ prog[result'[th]].variant = f.variant
              /\ prog[result'[th]].height = f.height
              /\ prog[result'[th]].deviceIdx = ctx[f.ctx].deviceIdx
              /\ prog[result'[th]].hash = f.hash
        /\ (f.seen # 0 /\ Returns(th) /\ prog'[f.seen].st = "cached") =>
              /\ pc[th] = "gp_ret"
              /\ result'[th] = f.seen
              /\ ~f.built /\ ~f.mutated
              /\ createCalls' = createCalls
              /\ CryptonightR_cache' = CryptonightR_cache
    ]_vars

\* a repeated request is about to hit while the cache also holds an entry
\* that differs from the request in the fingerprint alone
C2_Witness ==
    \E th \in Callers :
        /\ pc[th] = "gp_ret"
        /\ frame[th].seen # 0
        /\ prog[frame[th].seen].by = th
        /\ \E e \in Entries(CryptonightR_cache) :
              /\ e.variant = frame[th].variant
              /\ e.height = frame[th].height
              /\ e.deviceIdx = ctx[frame[th].ctx].deviceIdx
              /\ e.hash # frame[th].hash

\* C4: the scan of CryptonightR_release(ctx) leaves no entry of ctx's device
\* in the cache and keeps every entry of another device.
C4_DeviceEvictionComplete ==
    [][\A t \in Callers :
        (pc[t] = "rl_scan" /\ pc'[t] = "idle") =>
            /\ \A e \in Entries(CryptonightR_cache') : e.deviceIdx # ctx[t].deviceIdx
            /\ Entries(CryptonightR_cache') =
                  {e \in Entries(CryptonightR_cache) : e.deviceIdx # ctx[t].deviceIdx}
            /\ Len(CryptonightR_cache') = Cardinality(Entries(CryptonightR_cache'))
    ]_vars

\* a release has removed two entries of its device, of different variants
\* and heights, and kept an entry of another device
C4_Witness ==
    /\ \E p, q \in 1..Len(prog) :
          /\ prog[p].st = "device" /\ prog[q].st = "device"
          /\ prog[p].variant # prog[q].variant
          /\ prog[p].height # prog[q].height
    /\ Len(CryptonightR_cache) >= 1
    /\ \A t \in Callers : pc[t] = "idle"

\* C5 as stated: a program removed from the cache by either eviction is
\* released exactly once, by the evicting thread with the cache lock not held:
\* it is released once, or not yet and in the old_programs of a thread that is
\* about to release it.
C5_Original ==
    /\ \A p \in 1..Len(prog) :
          prog[p].st \in {"stale", "device"} =>
              \/ prog[p].rel = 1
              \/ /\ prog[p].rel = 0
                 /\ \E th \in Threads :
                       /\ pc[th] = "ev_release"
                       /\ \E i \in 1..Len(frame[th].old_programs) :
                             frame[th].old_programs[i] = p
    /\ \A th \in Threads :
          pc[th] = "ev_release" => CryptonightR_cache_mutex # th

\* ------------------------------------------------------------ build errors

\* thread th returns from a build error in this step: createProgramWithSource,
\* buildProgram or wait_build failed
BuildErrorReturn(th) ==
    /\ pc[th] \in {"create", "build", "wait"}
    /\ Returns(th)

\* the programs in a sequence of handles
Handles(ps) == {ps[i] : i \in 1..Len(ps)}

\* C11 as stated: a request that ends in a build error returns null and has
\* left the cache as it found it.
C11_Original ==
    [][\A th \in Threads :
        BuildErrorReturn(th) =>
            /\ result'[th] = 0
            /\ ~frame[th].mutated
    ]_vars

\* C11 amended: a request that ends in a build error returns null and has
\* inserted nothing: its program, if one was created, is in no entry; the
\* only entries it removed are those its stale eviction moved to
\* old_programs before the build, all of its variant and stale by the test
\* of line 170, none of them left in the cache.
C11_BuildErrorInsertsNothing ==
    [][\A th \in Threads :
        LET f == frame[th] IN
        BuildErrorReturn(th) =>
            /\ result'[th] = 0
            /\ CryptonightR_cache' = CryptonightR_cache
            /\ f.program \notin Programs(CryptonightR_cache')
            /\ f.mutated <=> f.old_programs # << >>
            /\ \A p \in Handles(f.old_programs) :
                  /\ prog[p].variant = f.variant
                  /\ (prog[p].height + PRECOMPILATION_DEPTH) % HEIGHT_MOD < f.height
                  /\ p \notin Programs(CryptonightR_cache')
                  /\ prog[p].st = "stale"
    ]_vars

\* two calls were made and have returned: the first built a program, the
\* second evicted it as stale and then ended in a build error
C11_Witness ==
    /\ calls = 2
    /\ \A t \in Callers : pc[t] = "idle"
    /\ Len(prog) = 2
    /\ prog[1].st = "stale" /\ prog[1].rel = 1
    /\ prog[2].st = "failed"
    /\ CryptonightR_cache = << >>
    /\ \E t \in Callers : result[t] = 0

\* C12: a program whose buildProgram or wait_build failed is released once,
\* is in no cache entry and is no thread's return value; when the build
\* fails the cache holds no entry for the key; and a later synchronous
\* request for the key, made while the cache holds no entry for it, does not
\* return before createProgramWithSource was called again: by the request
\* itself, or by a concurrent request whose new program it returns.
C12_FailedBuildsNeverCached ==
    /\ [](\A q \in 1..Len(prog) :
            prog[q].st = "failed" =>
                /\ prog[q].rel = 1
                /\ q \notin Programs(CryptonightR_cache)
                /\ \A th \in Threads : result[th] # q)
    /\ [][\A th \in Threads :
            LET f == frame[th] IN
            /\ (pc[th] \in {"build", "wait"} /\ Returns(th)) =>
                  /\ result'[th] = 0
                  /\ prog'[f.program].st = "failed"
                  /\ Lookup(CryptonightR_cache', f.variant, f.height,
                            ctx[f.ctx].deviceIdx, f.hash) = 0
            /\ (f.retry /\ Returns(th)) =>
                  \/ f.built
                  \/ pc[th] = "create" /\ createCalls > 0
                  \/ /\ pc[th] \in {"gp_ret", "rc_ret"}
                     /\ result'[th] > 0
                     /\ prog[result'[th]].by # th
                     /\ \E q \in 1..(result'[th] - 1) : prog[q].st = "failed"
       ]_vars

\* after a failed build of the key a second request for it has called
\* createProgramWithSource again and is about to build
C12_Witness ==
    \E th \in Threads :
        /\ pc[th] = "build"
        /\ frame[th].retry
        /\ frame[th].built
        /\ \E q \in 1..Len(prog) : prog[q].st = "failed" /\ prog[q].rel = 1

\* ---------------------------------------------------------------- MixedSpec
\* two mining threads, each with a device of its own, make requests and
\* release their devices: the first synchronous and background requests for
\* one height, the second synchronous requests for that height and one far above; the worker runs the
\* background requests with the submitter's context; builds may fail

MixedInit ==
    /\ InitShared
    /\ ctx = [c \in Callers |->
                GpuContext(IF c = 2 THEN << 1, 1 >> ELSE << 0, 0 >>, 0)]

MixedNext ==
    \/ /\ Budget(MaxCalls)
       /\ \/ \E b \in BOOLEAN :
                CallGetProgram(1, VARIANT_WOW, PRECOMPILATION_DEPTH + 1, b, 0, TRUE)
          \/ \E h \in {PRECOMPILATION_DEPTH + 1, HEIGHT_MOD - 1} :
                CallGetProgram(2, VARIANT_WOW, h, FALSE, 0, TRUE)
    \/ \E t \in {1, 2} : Budget(MaxCalls) /\ CallRelease(t)
    \/ \E t \in {1, 2} : RlLock(t) \/ RlScan(t)
    \/ \E th \in Threads : Submit(th)
    \/ WorkerQueue
    \/ \E th \in Threads : Pipeline(th, BOOLEAN)

MixedSpec == MixedInit /\ [][MixedNext]_vars

\* the key of a cache entry
EntryKey(e) == << e.variant, e.height, e.deviceIdx, e.hash >>

\* C13: the cache never holds two entries with the same (variant, height,
\* device index, fingerprint).
C13_CacheUnique ==
    \A i, j \in 1..Len(CryptonightR_cache) :
        i # j => EntryKey(CryptonightR_cache[i]) # EntryKey(CryptonightR_cache[j])

\* a thread that missed at the first lookup has found, at the re-check under
\* the build lock, the entry another thread inserted meanwhile
C13_Witness ==
    \E th \in Threads :
        /\ pc[th] = "rc_ret"
        /\ frame[th].program \in Programs(CryptonightR_cache)
        /\ prog[frame[th].program].by # th

\* the positions from the call of createProgramWithSource to the return
\* after the insert (lines 211-240)
Compiling == {"create", "build", "wait", "ins_lock", "insert", "ins_ret"}

\* C14: at most one thread, mining threads and worker alike, is between the
\* start of createProgramWithSource and the cache insert or failure return,
\* and that thread holds the build lock.
C14_OneCompilation ==
    /\ Cardinality({th \in Threads : pc[th] \in Compiling}) <= 1
    /\ \A th \in Threads : pc[th] \in Compiling => CryptonightR_build_mutex = th

\* the worker is inside a build while a mining thread of another device
\* waits for the build lock
C14_Witness ==
    /\ pc[Worker] = "build"
    /\ pc[2] = "bl_lock"
    /\ ctx[frame[Worker].ctx].deviceIdx # ctx[2].deviceIdx

\* the positions at which a thread is about to call, or is inside, the
\* external build service: releaseKernel (158), releaseProgram (185, 221,
\* 229), createProgramWithSource (211), buildProgram (218), wait_build (226)
InBuildService == {"bp_kernel", "ev_release", "create", "build", "wait"}

\* C15: no thread holds the cache lock while it is in a call of the external
\* build service; the releaseProgram of CryptonightR_release (line 127) comes
\* before its lock (line 129).
C15_NoCacheLockInBuildService ==
    /\ \A th \in Threads :
          pc[th] \in InBuildService => CryptonightR_cache_mutex # th
    /\ \A th \in Threads :
          CryptonightR_cache_mutex = th =>
              pc[th] \in {"gp_scan", "ev_scan", "rc_scan", "insert", "rl_scan"}

\* a thread is releasing the programs it evicted while another thread holds
\* the cache lock
C15_Witness ==
    \E a, b \in Threads :
        /\ a # b
        /\ pc[a] = "ev_release"
        /\ frame[a].old_programs # << >>
        /\ CryptonightR_cache_mutex = b

\* the lock a thread is waiting for at its position: "cache", "build",
\* "queue", or "none"
WaitsFor(th) ==
    IF pc[th] \in {"gp_lock", "ev_lock", "rc_lock", "ins_lock", "rl_lock"} THEN "cache"
    ELSE IF pc[th] = "bl_lock" THEN "build"
    ELSE IF pc[th] \in {"bg_lock", "w_top"} THEN "queue"
    ELSE "none"

Holder(lock) ==
    IF lock = "cache" THEN CryptonightR_cache_mutex
    ELSE IF lock = "build" THEN CryptonightR_build_mutex
    ELSE IF lock = "queue" THEN background_tasks_mutex
    ELSE NoThread

\* C19: no thread waits for the build lock or the queue lock while holding
\* the cache lock; the holder of the queue lock is neither waiting for a
\* lock nor executing a task; and no set of threads wait on locks held
\* inside the set.
C19_DeadlockFree ==
    /\ \A th \in Threads :
          CryptonightR_cache_mutex = th => WaitsFor(th) = "none"
    /\ \A th \in Threads :
          background_tasks_mutex = th => pc[th] \in {"bg_push", "w_swap"}
    /\ \A S \in SUBSET Threads :
          S # {} => \E th \in S : Holder(WaitsFor(th)) \notin S

\* the worker, holding the build lock, waits for the cache lock, which a
\* mining thread holds, while another mining thread waits for the build lock
C19_Witness ==
    /\ pc[Worker] \in {"rc_lock", "ins_lock"}
    /\ CryptonightR_build_mutex = Worker
    /\ \E a, b \in Callers :
          /\ CryptonightR_cache_mutex = a
          /\ pc[b] = "bl_lock"

\* C16 as stated: the eviction step of a request for (variant v, height h)
\* removes exactly the entries of variant v with
\* entry.height + PRECOMPILATION_DEPTH < h, of any device, and hands their
\* programs to old_programs.
C16_Original ==
    [][\A th \in Threads :
        LET f == frame[th]
            stale == {e \in Entries(CryptonightR_cache) :
                        /\ e.variant = f.variant
                        /\ e.height + PRECOMPILATION_DEPTH < f.height}
        IN
        (pc[th] = "ev_scan" /\ pc'[th] = "ev_release") =>
            /\ Entries(CryptonightR_cache') = Entries(CryptonightR_cache) \ stale
            /\ Handles(frame'[th].old_programs) = {e.program : e \in stale}
    ]_vars

\* --------------------------------------------------------------- KernelSpec
\* two mining threads of one device make synchronous requests for one key,
\* with and without an outgoing kernel; builds may fail

KernelNext ==
    \/ /\ Budget(MaxCalls)
       /\ \E t \in {1, 2}, k \in Kernels :
             CallGetProgram(t, VARIANT_WOW, PRECOMPILATION_DEPTH + 1, FALSE, k, TRUE)
    \/ \E t \in {1, 2} : Pipeline(t, BOOLEAN)

KernelSpec == OneDeviceInit /\ [][KernelNext]_vars

\* C17 as stated: a synchronous call given an outgoing kernel has released
\* it exactly once when it returns, whatever its outcome, and before any
\* stale eviction, build-lock acquisition or external build call.
C17_Original ==
    [][\A th \in Threads :
        LET f == frame[th] IN
        /\ (f.old_kernel # 0 /\ Returns(th)) => f.krel = 1
        /\ (f.old_kernel # 0 /\ pc[th] = "bp_kernel" /\ pc'[th] # pc[th]) =>
              /\ f.krel = 0 /\ frame'[th].krel = 1
              /\ ~f.mutated /\ ~f.built
              /\ CryptonightR_build_mutex # th
    ]_vars

\* ----------------------------------------------------------- FairSameKeySpec
\* SameKeySpec with every thread that can take a step of its request
\* eventually taking one; every call of the build service returns

FairSameKeySpec ==
    /\ SameKeySpec
    /\ \A t \in Callers : WF_vars(Pipeline(t, BOOLEAN))

\* C18: every synchronous request returns, with a handle or with null, and
\* a thread that is not inside a request holds neither the cache lock nor
\* the build lock.
C18_SyncTerminates ==
    /\ \A t \in Callers : (pc[t] # "idle") ~> (pc[t] = "idle" /\ result[t] >= 0)
    /\ [](\A t \in Callers :
            pc[t] = "idle" =>
                /\ CryptonightR_cache_mutex # t
                /\ CryptonightR_build_mutex # t)

\* all requests have returned, over the three kinds of return under the
\* build lock: one failed at createProgramWithSource, one failed in the
\* build, one was returned a program; no lock is held
C18_Witness ==
    /\ AllReturned
    /\ createCalls = 3 /\ Len(prog) = 2
    /\ prog[1].st = "failed" \/ prog[2].st = "failed"
    /\ \E t \in Callers : result[t] > 0
    /\ CryptonightR_cache_mutex = NoThread
    /\ CryptonightR_build_mutex = NoThread

\* C20 as stated: a program handle a request returns has not been passed
\* to releaseProgram when it is returned.
C20_Original ==
    [][\A th \in Threads :
        (Returns(th) /\ result'[th] > 0) => prog'[result'[th]].rel = 0
    ]_vars

====
